---- MODULE Spec2Model ----
(***************************************************************************)
(* A model of the GUI module of ASE (src/src/main.cpp): the monitor        *)
(* scheduler (add_gui_monitor, remove_gui_monitor, the JM_TIMER handler),  *)
(* the keyboard-shortcut table (add_keyboard_shortcut_to_...,              *)
(* get_keyboard_shortcut_for_...), the JM_KEYPRESSED resolver, the event   *)
(* loop with its idle flags (JM_QUEUEPROCESSING, gui_feedback), the screen *)
(* set-up (gui_setup_screen), the display-mode negotiation of              *)
(* init_module_gui, and exit_module_gui.                                   *)
(*                                                                         *)
(* The subsystems share little state, so each has its own specification    *)
(* over the same variables: SpecMonitors, SpecShutdown, SpecTable,         *)
(* SpecTools, SpecCommands, SpecKeys, SpecIdle, SpecGfx.                   *)
(***************************************************************************)
EXTENDS Integers, Sequences, FiniteSets, TLC

(***************************************************************************)
(* Bounds of the model.                                                    *)
(***************************************************************************)
\* number of Monitor objects ever created by add_gui_monitor
MaxMonitors == 3
\* depth of nested JM_TIMER processing (a tick handled inside a poll callback)
MaxDepth == 2
\* number of JM_TIMER messages delivered in one behaviour
MaxTicks == 3
\* number of ExecuteCommand Shortcut objects in the table (the ChangeTool
\* ones are at most one per tool of tools_list)
MaxCommandShortcuts == 2
\* number of off-screen buffers create_bitmap makes in one behaviour
MaxBitmaps == 2
\* number of restarts of the for (;;) loop of the display-mode negotiation
MaxRounds == 6

(***************************************************************************)
(* Program constants.                                                      *)
(***************************************************************************)
\* static int monitor_timer = -1;
NoTimer == -1
\* monitors->end(), and the NULL pointer
End == 0
\* #define REBUILD_RECENT_LIST 2
REBUILD_RECENT_LIST == 2
\* #define REFRESH_FULL_SCREEN 4
REFRESH_FULL_SCREEN == 4
\* BITMAP* screen: the real display surface, as a bitmap id
screen == 0
\* #define DEF_SCALE 1 (not ALLEGRO_WINDOWS)
DEF_SCALE == 1

MonitorIds == 1..MaxMonitors

VARIABLES
  \* ---- monitor scheduler ----
  monitors,        \* MonitorList* monitors: the list, as the sequence of its Monitor ids
  nmonitors,       \* how many Monitor objects "new Monitor" has built so far
  lock,            \* Monitor::lock of each Monitor
  deleted,         \* Monitor::deleted of each Monitor
  alloc,           \* TRUE while the Monitor object is allocated (built, not yet deleted)
  stale_next,      \* what the freed list node of an erased monitor still holds as successor
  monitor_timer,   \* static int monitor_timer
  timer_running,   \* whether the jinete timer monitor_timer is started
  timers_allocated,\* how many timers jmanager_add_timer has handed out
  ticks,           \* the active JM_TIMER handler frames, outermost first
  nticks,          \* how many JM_TIMER messages have been handled
  free_calls,      \* how many times ~Monitor ran (*free)(data) for each Monitor
  self_removed,    \* the monitors that called remove_gui_monitor on themselves in their proc
  crashed,         \* the process was killed by an invalid memory access
  \* ---- keyboard shortcuts ----
  shortcuts,       \* std::vector<Shortcut*>* shortcuts, in registration (push_back) order
  last_add,        \* the last add_keyboard_shortcut_to_... call: its arguments and effect
  current_tool,    \* Tool* current_tool (modules/tools)
  children,        \* manager->children: the windows of the manager, first to last
  top_window,      \* app_get_top_window(): its position in children, 0 when it is not there
  key,             \* the last JM_KEYPRESSED message and what the handler did with it
  \* ---- module lifetime ----
  exited,          \* exit_module_gui has run
  \* ---- event loop and idle flags ----
  next_idle_flags, \* static volatile int next_idle_flags
  loop_pc,         \* where the JM_QUEUEPROCESSING handler stands ("idle": not in it)
  loop_reg,        \* the value of next_idle_flags the handler loaded for its ^=
  cb_pc,           \* where display_switch_in_callback stands ("none": not running)
  cb_reg,          \* the value of next_idle_flags the callback loaded for its |=
  iter,            \* what the current (or the last) loop iteration has done so far
  requested,       \* a display switch-in has set the flag since gui_feedback last cleared it
  \* ---- screen ----
  screen_scaling,  \* static int screen_scaling
  double_buffering,\* static bool double_buffering
  ji_screen,       \* BITMAP* ji_screen: a bitmap id
  ji_screen_created,\* static bool ji_screen_created
  nbitmaps,        \* how many bitmaps create_bitmap has made
  destroyed,       \* how many times destroy_bitmap was called on each bitmap
  \* ---- display-mode negotiation of init_module_gui ----
  gfx_pc,          \* where init_module_gui stands in setting the graphics mode
  bpp,             \* int bpp
  bpp_first,       \* the value of bpp when the for (;;) loop was entered
  gfx_res,         \* int w, h: the resolution asked for
  min_possible_dsk_res, \* int min_possible_dsk_res (an index of try_resolutions, from 1)
  try_c,           \* int c in the loop over try_resolutions (from 1)
  tried,           \* the set_gfx_mode calls made: <<depth, 0 or index of try_resolutions>>
  rounds,          \* how many times the for (;;) loop has been restarted
  \* ---- NewLayerCommand and the current sprite ----
  layers,          \* the layers of the current sprite (sprite->set), bottom to top, by name
  undo_log,        \* the undo log of the current sprite: the committed steps
  nl_pc,           \* where NewLayerCommand::execute stands: "idle" or "open" (dialog shown)
  nl_window,       \* the widgets of the window execute loaded
  nl_last          \* what the last execute call saw and did

monVars == <<monitors, nmonitors, lock, deleted, alloc, stale_next, monitor_timer,
             timer_running, timers_allocated, ticks, nticks, free_calls,
             self_removed>>

keyVars == <<shortcuts, last_add, current_tool, children, top_window, key>>

idleVars == <<next_idle_flags, loop_pc, loop_reg, cb_pc, cb_reg, iter, requested>>

screenVars == <<screen_scaling, double_buffering, ji_screen, ji_screen_created,
                nbitmaps, destroyed>>

gfxVars == <<gfx_pc, bpp, bpp_first, gfx_res, min_possible_dsk_res, try_c, tried, rounds>>

docVars == <<layers, undo_log, nl_pc, nl_window, nl_last>>

envVars == <<exited, idleVars, screenVars, gfxVars, docVars>>

vars == <<monVars, crashed, keyVars, envVars>>

----------------------------------------------------------------------------
(***************************************************************************)
(* Helpers on sequences.                                                   *)
(***************************************************************************)
Range(s) == {s[i] : i \in 1..Len(s)}

IndexOf(s, x) == CHOOSE i \in 1..Len(s) : s[i] = x

RemoveAt(s, i) == SubSeq(s, 1, i - 1) \o SubSeq(s, i + 1, Len(s))

\* ++it on a valid iterator of the std::list: the following element, or end()
Successor(m) ==
  LET i == IndexOf(monitors, m)
  IN  IF i < Len(monitors) THEN monitors[i + 1] ELSE End

\* monitors->begin()
Begin == IF monitors = <<>> THEN End ELSE monitors[1]

----------------------------------------------------------------------------
(***************************************************************************)
(* Monitor scheduler.                                                      *)
(***************************************************************************)

\* A frame of the JM_TIMER handler: `it' is the iterator (a monitor id or
\* End); in phase "proc" the handler is inside (*monitor->proc)(monitor->data)
\* of monitor `it' and `next' is the iterator snapshotted before the call.
Frame(it, next, phase) == [it |-> it, next |-> next, phase |-> phase]

Depth == Len(ticks)
Top == ticks[Depth]

\* Application code runs either from the main loop (no handler active) or
\* from inside a poll callback (the innermost handler is in a proc).
InAppCode ==
  ~crashed /\ ~exited /\ (IF Depth = 0 THEN TRUE ELSE Top.phase = "proc")

\* The monitor is Running: some active handler frame is inside its proc.
Running(m) == \E i \in 1..Depth : ticks[i].phase = "proc" /\ ticks[i].it = m

\* The monitor whose poll callback is the innermost one running, or End.
CurrentProc == IF Depth > 0 /\ Top.phase = "proc" THEN Top.it ELSE End

\* Monitor::~Monitor: runs the teardown callback and releases the object.
DestroyMonitor(m) ==
  /\ alloc' = [alloc EXCEPT ![m] = FALSE]
  /\ free_calls' = [free_calls EXCEPT ![m] = @ + 1]

\* A variant that forgets to stop the timer.
StopTimerIfEmpty_Never(list) ==
  timer_running' = timer_running

\* if (monitors->empty()) jmanager_stop_timer(monitor_timer);
StopTimerIfEmpty(list) ==
  timer_running' = IF list = <<>> THEN FALSE ELSE timer_running

\* A variant that asks for a new timer on every add_gui_monitor.
AllocateTimer_Always ==
  /\ monitor_timer' = timers_allocated + 1
  /\ timers_allocated' = timers_allocated + 1

\* if (monitor_timer < 0) monitor_timer = jmanager_add_timer(...)
AllocateTimer ==
  IF monitor_timer < 0
    THEN /\ monitor_timer' = timers_allocated + 1
         /\ timers_allocated' = timers_allocated + 1
    ELSE UNCHANGED <<monitor_timer, timers_allocated>>

add_gui_monitor ==
  /\ InAppCode
  /\ nmonitors < MaxMonitors
  /\ LET m == nmonitors + 1
     IN  /\ nmonitors' = m
         /\ monitors' = Append(monitors, m)
         /\ lock' = [lock EXCEPT ![m] = FALSE]
         /\ deleted' = [deleted EXCEPT ![m] = FALSE]
         /\ alloc' = [alloc EXCEPT ![m] = TRUE]
  /\ AllocateTimer
  /\ timer_running' = TRUE
  /\ UNCHANGED <<stale_next, ticks, nticks, free_calls, self_removed, crashed, keyVars, envVars>>

\* A variant that deletes the Monitor at once, Running or not.
DeleteOrDefer_AlwaysDelete(m) ==
  DestroyMonitor(m) /\ UNCHANGED deleted

\* if (!monitor->lock) delete monitor; else monitor->deleted = true;
DeleteOrDefer(m) ==
  IF ~lock[m]
    THEN DestroyMonitor(m) /\ UNCHANGED deleted
    ELSE deleted' = [deleted EXCEPT ![m] = TRUE] /\ UNCHANGED <<alloc, free_calls>>

remove_gui_monitor(m) ==
  /\ InAppCode
  /\ m \in Range(monitors)        \* assert(it != monitors->end())
  /\ DeleteOrDefer(m)
  /\ stale_next' = [stale_next EXCEPT ![m] = Successor(m)]
  /\ monitors' = RemoveAt(monitors, IndexOf(monitors, m))
  /\ StopTimerIfEmpty(monitors')
  /\ self_removed' = IF CurrentProc = m THEN self_removed \cup {m} ELSE self_removed
  /\ UNCHANGED <<nmonitors, lock, monitor_timer, timers_allocated, ticks, nticks, crashed,
                 keyVars, envVars>>

\* JM_TIMER with msg->timer.timer_id == monitor_timer arrives: it = monitors->begin()
TimerTick ==
  /\ InAppCode
  /\ timer_running
  /\ monitor_timer >= 0
  /\ Depth < MaxDepth
  /\ nticks < MaxTicks
  /\ nticks' = nticks + 1
  /\ ticks' = Append(ticks, Frame(Begin, End, "visit"))
  /\ UNCHANGED <<monitors, nmonitors, lock, deleted, alloc, stale_next, monitor_timer,
                 timer_running, timers_allocated, free_calls, self_removed, crashed,
                 keyVars, envVars>>

SetTop(f) == ticks' = [ticks EXCEPT ![Depth] = f]

\* One pass of the loop body up to the call of the proc, on a monitor whose
\* list node and Monitor object are read with the values lk (lock) and nx (++next).
VisitWith(m, lk, nx) ==
  IF ~lk
    THEN /\ lock' = IF alloc[m] THEN [lock EXCEPT ![m] = TRUE] ELSE lock
         /\ SetTop(Frame(m, nx, "proc"))
    ELSE /\ SetTop(Frame(nx, End, "visit"))
         /\ UNCHANGED lock

\* The loop body on an iterator that is still in the list.
TickVisit ==
  /\ ~crashed /\ Depth > 0 /\ Top.phase = "visit"
  /\ Top.it # End
  /\ Top.it \in Range(monitors)
  /\ VisitWith(Top.it, lock[Top.it], Successor(Top.it))
  /\ UNCHANGED <<monitors, nmonitors, deleted, alloc, stale_next, monitor_timer,
                 timer_running, timers_allocated, nticks, free_calls, self_removed, crashed,
                 keyVars, envVars>>

\* The loop body on an iterator whose node was erased (and freed) by a poll
\* callback after the iterator was snapshotted: undefined behaviour.  The
\* build either faults, or reads what the freed node still holds (the
\* Monitor pointer and the successor it had when erased).  If the Monitor
\* object itself is freed too, its lock field reads as anything.
TickVisitDangling ==
  /\ ~crashed /\ Depth > 0 /\ Top.phase = "visit"
  /\ Top.it # End
  /\ Top.it \notin Range(monitors)
  /\ \/ /\ crashed' = TRUE
        /\ UNCHANGED <<lock, ticks>>
     \/ /\ \E lk \in (IF alloc[Top.it] THEN {lock[Top.it]} ELSE BOOLEAN) :
             VisitWith(Top.it, lk, stale_next[Top.it])
        /\ UNCHANGED crashed
  /\ UNCHANGED <<monitors, nmonitors, deleted, alloc, stale_next, monitor_timer,
                 timer_running, timers_allocated, nticks, free_calls, self_removed,
                 keyVars, envVars>>

\* (*monitor->proc)(monitor->data) returns:
\*   monitor->lock = false; if (monitor->deleted) delete monitor;
\* then it = next.  When the Monitor object was already freed (a proc entered
\* through a dangling iterator) monitor->deleted reads as anything, and a
\* second delete runs the teardown callback again.
ProcReturn ==
  /\ ~crashed /\ Depth > 0 /\ Top.phase = "proc"
  /\ LET m == Top.it
     IN  /\ IF alloc[m]
              THEN /\ lock' = [lock EXCEPT ![m] = FALSE]
                   /\ IF deleted[m]
                        THEN DestroyMonitor(m)
                        ELSE UNCHANGED <<alloc, free_calls>>
              ELSE /\ UNCHANGED <<lock, alloc>>
                   /\ \E del \in BOOLEAN :
                        free_calls' = IF del THEN [free_calls EXCEPT ![m] = @ + 1]
                                             ELSE free_calls
         /\ SetTop(Frame(Top.next, End, "visit"))
  /\ UNCHANGED <<monitors, nmonitors, deleted, stale_next, monitor_timer,
                 timer_running, timers_allocated, nticks, self_removed, crashed, keyVars, envVars>>

\* it == monitors->end(): if (monitors->empty()) jmanager_stop_timer(monitor_timer);
TickEnd ==
  /\ ~crashed /\ Depth > 0 /\ Top.phase = "visit"
  /\ Top.it = End
  /\ StopTimerIfEmpty(monitors)
  /\ ticks' = SubSeq(ticks, 1, Depth - 1)
  /\ UNCHANGED <<monitors, nmonitors, lock, deleted, alloc, stale_next, monitor_timer,
                 timers_allocated, nticks, free_calls, self_removed, crashed, keyVars, envVars>>

----------------------------------------------------------------------------
(***************************************************************************)
(* Keyboard shortcuts: the table.                                          *)
(***************************************************************************)

\* A NULL Command*, Tool* or Shortcut*.
NULL == "NULL"

\* Tool* tools_list[MAX_TOOLS], in tool-registration order.
tools_list == <<"A", "B", "C">>
Tools == Range(tools_list)

\* The commands the registry (CommandsModule) holds; CommandId::screen_shot
\* is the one available everywhere.
screen_shot == "screen_shot"
RegisteredCommands == {screen_shot, "new_layer"}
\* The names a caller may pass: the registered ones and one unknown name.
CommandNames == RegisteredCommands \cup {"no_such_command"}

\* CommandsModule::instance()->get_command_by_name(command_name)
get_command_by_name(command_name) ==
  IF command_name \in RegisteredCommands THEN command_name ELSE NULL

\* command->short_name()
short_name(command) == command

\* A Params* argument: the NULL pointer, or an object holding key/value pairs.
NullParams == [null |-> TRUE, kv |-> {}]
ParamsOf(kv) == [null |-> FALSE, kv |-> kv]
ParamsArgs == {NullParams, ParamsOf({}), ParamsOf({<<"layer", "1">>})}

\* params ? params->clone() : new Params
CloneOrNew(params) == ParamsOf(params.kv)

\* Params::empty() and Params::operator==
ParamsEmpty(p) == p.kv = {}
ParamsEqual(p, q) == p.kv = q.kv

\* A key of an accelerator and of a key message: the shifts mask and the key.
KeyCombo(shifts, scancode) == [shifts |-> shifts, scancode |-> scancode]
KB_CTRL_FLAG == "Ctrl"
NoShifts == "none"

\* The shortcut strings used, and what jaccel_add_keys_from_string gets from
\* "<string>": the combination of modifiers and key it spells.
ChordStrings == {"N", "Ctrl+N"}
ParseChord(shortcut_string) ==
  IF shortcut_string = "N" THEN {KeyCombo(NoShifts, "N")}
  ELSE IF shortcut_string = "Ctrl+N" THEN {KeyCombo(KB_CTRL_FLAG, "N")}
  ELSE {}

\* The key messages delivered: the two chords above and a key bound to nothing.
Messages == {KeyCombo(NoShifts, "N"), KeyCombo(KB_CTRL_FLAG, "N"), KeyCombo(NoShifts, "X")}

\* jaccel_check(accel, shifts, ascii, scancode): some alternative has the
\* message's shifts and key.
jaccel_check(accel, msg) ==
  \E k \in accel : k.shifts = msg.shifts /\ k.scancode = msg.scancode

Shortcut_ExecuteCommand == "ExecuteCommand"
Shortcut_ChangeTool == "ChangeTool"

\* struct Shortcut.  `command' and `tool' are the members of the union; `name'
\* is the command_name the Shortcut was created for (the object itself keeps
\* only the Command pointer); the accelerator is the set of its alternatives.
Shortcut(type, command, tool, name, params, accel) ==
  [type |-> type, command |-> command, tool |-> tool, name |-> name,
   params |-> params, accel |-> accel]

\* Shortcut::add_shortcut(shortcut_string) on the Shortcut at index i
add_shortcut(table, i, shortcut_string) ==
  [table EXCEPT ![i].accel = @ \cup ParseChord(shortcut_string)]

\* Shortcut::is_key_pressed(msg)
is_key_pressed(shortcut, msg) == jaccel_check(shortcut.accel, msg)

\* A variant of the loops that keeps the last hit.
FirstIndex_Last(hits) ==
  IF hits = {} THEN 0 ELSE CHOOSE i \in hits : \A j \in hits : i >= j

\* The loops over the table return at the first hit: the least index of
\* hits, 0 (NULL) when there is none.
FirstIndex(hits) ==
  IF hits = {} THEN 0 ELSE CHOOSE i \in hits : \A j \in hits : i <= j

\* A variant of the lookup in which absent parameters match any parameters.
get_keyboard_shortcut_for_command_NullMatchesAny(command_name, params) ==
  LET command == get_command_by_name(command_name)
      Test(sh) == /\ sh.type = Shortcut_ExecuteCommand
                  /\ sh.command = command
                  /\ \/ params.null
                     \/ ~params.null /\ ParamsEqual(sh.params, params)
  IN  IF command = NULL THEN 0
      ELSE FirstIndex({i \in 1..Len(shortcuts) : Test(shortcuts[i])})

\* get_keyboard_shortcut_for_command: the index of the Shortcut found, 0 for NULL
get_keyboard_shortcut_for_command(command_name, params) ==
  LET command == get_command_by_name(command_name)
      Test(sh) == /\ sh.type = Shortcut_ExecuteCommand
                  /\ sh.command = command
                  /\ \/ params.null /\ ParamsEmpty(sh.params)
                     \/ ~params.null /\ ParamsEqual(sh.params, params)
  IN  IF command = NULL THEN 0
      ELSE FirstIndex({i \in 1..Len(shortcuts) : Test(shortcuts[i])})

\* get_keyboard_shortcut_for_tool: the index of the Shortcut found, 0 for NULL
get_keyboard_shortcut_for_tool(tool) ==
  LET Test(sh) == sh.type = Shortcut_ChangeTool /\ sh.tool = tool
  IN  FirstIndex({i \in 1..Len(shortcuts) : Test(shortcuts[i])})

\* get_accel_to_execute_command: the accelerator, or NULL
get_accel_to_execute_command(command_name, params) ==
  LET i == get_keyboard_shortcut_for_command(command_name, params)
  IN  IF i # 0 THEN shortcuts[i].accel ELSE NULL

\* What last_add records of a call: the arguments, whether a Shortcut for the
\* target existed before, the index the chord went to, the accelerator that
\* Shortcut had before and the table size before.
AddRecord(type, shortcut_string, name, tool, params, index) ==
  [type |-> type, shortcut_string |-> shortcut_string, name |-> name, tool |-> tool,
   params |-> params, index |-> index,
   accel_before |-> IF index <= Len(shortcuts) THEN shortcuts[index].accel ELSE {},
   bound_before |->
     \E i \in 1..Len(shortcuts) :
       /\ shortcuts[i].type = type
       /\ IF type = Shortcut_ExecuteCommand
            THEN shortcuts[i].name = name /\ ParamsEqual(shortcuts[i].params, params)
            ELSE shortcuts[i].tool = tool,
   size_before |-> Len(shortcuts)]

NoAdd == [type |-> "none"]

NumCommandShortcuts ==
  Cardinality({i \in 1..Len(shortcuts) : shortcuts[i].type = Shortcut_ExecuteCommand})

add_keyboard_shortcut_to_execute_command(shortcut_string, command_name, params) ==
  /\ ~crashed
  /\ LET found == get_keyboard_shortcut_for_command(command_name, params)
         index == IF found = 0 THEN Len(shortcuts) + 1 ELSE found
         table == IF found = 0
                    THEN Append(shortcuts,
                                Shortcut(Shortcut_ExecuteCommand,
                                         get_command_by_name(command_name), NULL,
                                         command_name, CloneOrNew(params), {}))
                    ELSE shortcuts
     IN  /\ found = 0 => NumCommandShortcuts < MaxCommandShortcuts
         /\ shortcuts' = add_shortcut(table, index, shortcut_string)
         /\ last_add' = AddRecord(Shortcut_ExecuteCommand, shortcut_string,
                                  command_name, NULL, params, index)
  /\ UNCHANGED <<current_tool, children, top_window, key, crashed, monVars, envVars>>

add_keyboard_shortcut_to_change_tool(shortcut_string, tool) ==
  /\ ~crashed
  /\ LET found == get_keyboard_shortcut_for_tool(tool)
         index == IF found = 0 THEN Len(shortcuts) + 1 ELSE found
         table == IF found = 0
                    THEN Append(shortcuts,
                                Shortcut(Shortcut_ChangeTool, NULL, tool, NULL,
                                         NullParams, {}))
                    ELSE shortcuts
     IN  /\ shortcuts' = add_shortcut(table, index, shortcut_string)
         /\ last_add' = AddRecord(Shortcut_ChangeTool, shortcut_string,
                                  NULL, tool, NullParams, index)
  /\ UNCHANGED <<current_tool, children, top_window, key, crashed, monVars, envVars>>

NoKey == [n |-> 0, msg |-> [shifts |-> "none", scancode |-> "none"], tool_before |-> NULL,
          outcome |-> [fault |-> FALSE, first |-> 0, group |-> <<>>, selected |-> NULL,
                       executed |-> [command |-> NULL, params |-> NullParams],
                       consumed |-> FALSE]]

\* init_module_gui: shortcuts = new std::vector<Shortcut*>; the manager is
\* new and has no window yet.
InitKeys ==
  /\ shortcuts = <<>>
  /\ last_add = NoAdd
  /\ current_tool = tools_list[1]
  /\ children = <<>>
  /\ top_window = 0
  /\ key = NoKey

\* The shortcut table alone: shortcuts bound in any order, with any arguments.
NextTable ==
  \/ \E s \in ChordStrings, c \in CommandNames, p \in ParamsArgs :
       add_keyboard_shortcut_to_execute_command(s, c, p)
  \/ \E s \in ChordStrings, t \in {"A"} :
       add_keyboard_shortcut_to_change_tool(s, t)

----------------------------------------------------------------------------
(***************************************************************************)
(* Keyboard shortcuts: the JM_KEYPRESSED handler.                          *)
(***************************************************************************)

\* A window of the manager: what jwindow_is_foreground and
\* jwindow_is_desktop answer for it.
Window(foreground, desktop) == [foreground |-> foreground, desktop |-> desktop]
WindowKinds == {Window(TRUE, FALSE), Window(FALSE, TRUE), Window(FALSE, FALSE)}

\* The lists manager->children may be: none, one or two windows, in any order.
ChildrenLists ==
  {<<>>} \cup {<<a>> : a \in WindowKinds} \cup {<<a, b>> : a, b \in WindowKinds}

\* Windows are opened, closed and reordered by the window host.
SetWindows ==
  /\ ~crashed
  /\ \E c \in ChildrenLists :
       /\ children' = c
       /\ top_window' \in 0..Len(c)
  /\ <<children', top_window'>> # <<children, top_window>>
  /\ UNCHANGED <<shortcuts, last_add, current_tool, key, crashed, monVars, envVars>>

\* No command was passed to execute_command.
NoExec == [command |-> NULL, params |-> NullParams]

\* What one JM_KEYPRESSED did: whether it faulted, the index of the first
\* matching Shortcut (0: none), the group of tools built, the tool passed to
\* select_tool, the command passed to execute_command, the value returned.
Outcome(fault, first, group, selected, executed, consumed) ==
  [fault |-> fault, first |-> first, group |-> group, selected |-> selected,
   executed |-> executed, consumed |-> consumed]

\* The first Shortcut of the table, in registration order, whose accelerator
\* matches the message
FirstMatch(msg) ==
  LET Test(sh) == is_key_pressed(sh, msg)
  IN  FirstIndex({i \in 1..Len(shortcuts) : Test(shortcuts[i])})

\* for (i=j=0; i<MAX_TOOLS; i++)
\*   if (get_keyboard_shortcut_for_tool(tools_list[i])->is_key_pressed(msg))
\*     group[j++] = tools_list[i];
\* through_null is what is_key_pressed answers when called through the NULL
\* pointer of a tool that has no Shortcut and the call does not fault.
ToolGroup(msg, through_null) ==
  LET Test(tool) ==
        LET i == get_keyboard_shortcut_for_tool(tool)
        IN  IF i = 0 THEN through_null ELSE is_key_pressed(shortcuts[i], msg)
  IN  SelectSeq(tools_list, Test)

\* Some tool of tools_list has no Shortcut.
SomeToolUnbound == \E t \in Tools : get_keyboard_shortcut_for_tool(t) = 0

\* A variant of the cycle that always falls back to the matched Shortcut's tool.
SelectThisTool_NoCycle(tool, group) == tool

\* Tool* select_this_tool = shortcut->tool;
\* if (j >= 2) for (i=0; i<j; i++)
\*   if (group[i] == current_tool && i+1 < j) { select_this_tool = group[i+1]; break; }
\* (written for any active tool; the handler reads current_tool)
SelectThisToolFrom(active, tool, group) ==
  LET j == Len(group)
      hits == {i \in 1..j : group[i] = active /\ i + 1 <= j}
  IN  IF j >= 2 /\ hits # {}
        THEN group[(CHOOSE i \in hits : \A k \in hits : i <= k) + 1]
        ELSE tool

SelectThisTool(tool, group) == SelectThisToolFrom(current_tool, tool, group)

\* case Shortcut_ChangeTool, for the matched Shortcut at index first
ChangeToolOutcomes(msg, first) ==
  LET Done(group) ==
        Outcome(FALSE, first, group, SelectThisTool(shortcuts[first].tool, group),
                NoExec, FALSE)
  IN  IF SomeToolUnbound
        THEN {Outcome(TRUE, first, <<>>, NULL, NoExec, FALSE)}
               \cup {Done(ToolGroup(msg, b)) : b \in BOOLEAN}
        ELSE {Done(ToolGroup(msg, FALSE))}

\* JI_LIST_FOR_EACH(widget->children, link): stop at the first child that is
\* a foreground window (break) or is the desktop and the top window (execute).
MainWindowAccepts ==
  LET stops == {i \in 1..Len(children) :
                  \/ children[i].foreground
                  \/ children[i].desktop /\ i = top_window}
  IN  /\ stops # {}
      /\ ~children[CHOOSE i \in stops : \A k \in stops : i <= k].foreground

\* A variant of the ExecuteCommand case that consumes the event of a command
\* it held back.
ExecuteCommandOutcomes_ConsumeSuppressed(first) ==
  LET command == shortcuts[first].command
      Execute == Outcome(FALSE, first, <<>>, NULL,
                         [command |-> command, params |-> shortcuts[first].params],
                         TRUE)
  IN  IF command = NULL
        THEN {Outcome(TRUE, first, <<>>, NULL, NoExec, FALSE)}
      ELSE IF short_name(command) = screen_shot
        THEN {Execute}
      ELSE IF MainWindowAccepts
        THEN {Execute}
        ELSE {Outcome(FALSE, first, <<>>, NULL, NoExec, TRUE)}

\* case Shortcut_ExecuteCommand, for the matched Shortcut at index first
ExecuteCommandOutcomes(first) ==
  LET command == shortcuts[first].command
      Execute == Outcome(FALSE, first, <<>>, NULL,
                         [command |-> command, params |-> shortcuts[first].params],
                         TRUE)
  IN  IF command = NULL
        THEN {Outcome(TRUE, first, <<>>, NULL, NoExec, FALSE)}
      ELSE IF short_name(command) = screen_shot
        THEN {Execute}
      ELSE IF MainWindowAccepts
        THEN {Execute}
        ELSE {Outcome(FALSE, first, <<>>, NULL, NoExec, FALSE)}

\* case JM_KEYPRESSED: everything the handler may do with the message
KeyOutcomes(msg) ==
  LET first == FirstMatch(msg)
  IN  IF first = 0
        THEN {Outcome(FALSE, 0, <<>>, NULL, NoExec, FALSE)}
      ELSE IF shortcuts[first].type = Shortcut_ChangeTool
        THEN ChangeToolOutcomes(msg, first)
        ELSE ExecuteCommandOutcomes(first)

\* select_tool(tool)
select_tool(tool) == current_tool' = tool

KeyPressed(msg) ==
  /\ ~crashed
  /\ \E o \in KeyOutcomes(msg) :
       /\ key' = [n |-> 1 - key.n, msg |-> msg, tool_before |-> current_tool,
                  outcome |-> o]
       /\ crashed' = o.fault
       /\ IF o.selected # NULL
            THEN select_tool(o.selected)
            ELSE UNCHANGED current_tool
  /\ UNCHANGED <<shortcuts, last_add, children, top_window, monVars, envVars>>

\* Tool shortcuts and key presses.
NextTools ==
  \/ \E s \in ChordStrings, t \in Tools :
       add_keyboard_shortcut_to_change_tool(s, t)
  \/ \E msg \in Messages : KeyPressed(msg)

\* Command shortcuts, windows and key presses.
NextCommands ==
  \/ \E s \in ChordStrings, c \in CommandNames :
       add_keyboard_shortcut_to_execute_command(s, c, NullParams)
  \/ SetWindows
  \/ \E msg \in Messages : KeyPressed(msg)


\* Tool and command shortcuts in one table, and key presses; no window is
\* open, so every command but screen_shot is held back by the focus gating.
NextKeys ==
  \/ \E st \in {<<"N", "A">>, <<"N", "B">>, <<"Ctrl+N", "C">>} :
       add_keyboard_shortcut_to_change_tool(st[1], st[2])
  \/ \E c \in RegisteredCommands :
       add_keyboard_shortcut_to_execute_command("N", c, NullParams)
  \/ \E msg \in Messages : KeyPressed(msg)

----------------------------------------------------------------------------
(***************************************************************************)
(* The screen: gui_setup_screen and set_screen_scaling.                    *)
(***************************************************************************)

\* The scalings asked for: none, and one that needs double buffering.
Scalings == {1, 2}

BitmapIds == 0..MaxBitmaps

\* destroy_bitmap(bmp)
destroy_bitmap(bmp) == destroyed' = [destroyed EXCEPT ![bmp] = @ + 1]

\* Idle flags are changed, and the screen reconfigured, by application code:
\* it runs on the loop's thread, outside the JM_QUEUEPROCESSING handler.
AppCodeBetweenIterations == ~crashed /\ ~exited /\ loop_pc = "idle"

set_screen_scaling(scaling) ==
  /\ AppCodeBetweenIterations
  /\ scaling # screen_scaling
  /\ screen_scaling' = scaling
  /\ UNCHANGED <<double_buffering, ji_screen, ji_screen_created, nbitmaps, destroyed,
                 exited, idleVars, gfxVars, monVars, crashed, keyVars, docVars>>

gui_setup_screen ==
  /\ AppCodeBetweenIterations
  /\ double_buffering' = (screen_scaling > 1)
  /\ IF double_buffering'
       THEN /\ nbitmaps < MaxBitmaps
            /\ nbitmaps' = nbitmaps + 1
            /\ ji_screen' = nbitmaps + 1
            /\ IF ji_screen_created
                 THEN destroy_bitmap(ji_screen)
                 ELSE UNCHANGED destroyed
            /\ ji_screen_created' = TRUE
       ELSE /\ ji_screen' = screen
            /\ ji_screen_created' = FALSE
            /\ UNCHANGED <<nbitmaps, destroyed>>
  /\ UNCHANGED <<screen_scaling, exited, idleVars, gfxVars, monVars, crashed, keyVars, docVars>>

\* init_module_gui with the default configuration (Scale = 1): gui_setup_screen
\* has set ji_screen to the real screen.
InitScreen ==
  /\ screen_scaling = 1
  /\ double_buffering = FALSE
  /\ ji_screen = screen
  /\ ji_screen_created = FALSE
  /\ nbitmaps = 0
  /\ destroyed = [b \in BitmapIds |-> 0]

----------------------------------------------------------------------------
(***************************************************************************)
(* The event loop: JM_QUEUEPROCESSING, gui_feedback and the idle flags.    *)
(***************************************************************************)

\* next_idle_flags & bit, next_idle_flags | bit, next_idle_flags ^ bit for
\* a single-bit mask
Has(flags, bit) == (flags \div bit) % 2 = 1
BitOr(flags, bit) == IF Has(flags, bit) THEN flags ELSE flags + bit
BitXor(flags, bit) == IF Has(flags, bit) THEN flags - bit ELSE flags + bit

\* What an iteration has done so far: the calls made, in order; the bits its
\* tests found set; the bits its ^= statements stored, in order; what
\* app_realloc_recent_list returned; what update_screen_for_sprite was given.
NoIteration ==
  [steps |-> <<>>, observed |-> {}, toggled |-> <<>>, realloc |-> "none",
   refreshed |-> <<>>]

Goto(pc) == loop_pc' = pc

Log(step) == iter' = [iter EXCEPT !.steps = Append(@, step)]

\* The statement that follows the idle-flag block of gui_feedback.
AfterIdleFlags_DroppedFiles == "check_for_dropped_files"

AfterIdleFlags == "rec_screen_poll"

\* case JM_QUEUEPROCESSING: gui_feedback() is called
QueueProcessing ==
  /\ ~crashed /\ ~exited /\ loop_pc = "idle"
  /\ Goto("test_rebuild")
  /\ iter' = NoIteration
  /\ UNCHANGED <<next_idle_flags, loop_reg, cb_pc, cb_reg, requested,
                 exited, screenVars, gfxVars, monVars, crashed, keyVars, docVars>>

\* if (next_idle_flags & REBUILD_RECENT_LIST)
TestRebuild ==
  /\ loop_pc = "test_rebuild"
  /\ IF Has(next_idle_flags, REBUILD_RECENT_LIST)
       THEN /\ Goto("realloc")
            /\ iter' = [iter EXCEPT !.observed = @ \cup {REBUILD_RECENT_LIST}]
       ELSE /\ Goto("test_refresh")
            /\ UNCHANGED iter
  /\ UNCHANGED <<next_idle_flags, loop_reg, cb_pc, cb_reg, requested,
                 exited, screenVars, gfxVars, monVars, crashed, keyVars, docVars>>

\* A variant that clears the bit whatever app_realloc_recent_list returns.
AfterRealloc_AlwaysClear(ok) == "clear_rebuild_read"

\* if (app_realloc_recent_list()) next_idle_flags ^= REBUILD_RECENT_LIST;
AfterRealloc(ok) == IF ok THEN "clear_rebuild_read" ELSE "test_refresh"

ReallocRecentList ==
  /\ loop_pc = "realloc"
  /\ \E ok \in BOOLEAN :
       /\ Goto(AfterRealloc(ok))
       /\ iter' = [iter EXCEPT !.steps = Append(@, "rebuild"),
                               !.realloc = IF ok THEN "true" ELSE "false"]
  /\ UNCHANGED <<next_idle_flags, loop_reg, cb_pc, cb_reg, requested,
                 exited, screenVars, gfxVars, monVars, crashed, keyVars, docVars>>

\* next_idle_flags ^= bit is a load, an exclusive or and a store; the
\* display-switch callback may run between the load and the store.  The
\* store of the REFRESH_FULL_SCREEN clear is followed by the refresh pass, so
\* it takes up every request made before it.
ClearRead(pc, then) ==
  /\ loop_pc = pc
  /\ loop_reg' = next_idle_flags
  /\ Goto(then)
  /\ UNCHANGED <<next_idle_flags, cb_pc, cb_reg, iter, requested,
                 exited, screenVars, gfxVars, monVars, crashed, keyVars, docVars>>

ClearWrite(pc, bit, then) ==
  /\ loop_pc = pc
  /\ next_idle_flags' = BitXor(loop_reg, bit)
  /\ loop_reg' = 0
  /\ iter' = [iter EXCEPT !.toggled = Append(@, bit)]
  /\ requested' = IF bit = REFRESH_FULL_SCREEN THEN FALSE ELSE requested
  /\ Goto(then)
  /\ UNCHANGED <<cb_pc, cb_reg, exited, screenVars, gfxVars, monVars, crashed, keyVars, docVars>>

\* next_idle_flags ^= REBUILD_RECENT_LIST;
ClearRebuildRead == ClearRead("clear_rebuild_read", "clear_rebuild_write")
ClearRebuildWrite == ClearWrite("clear_rebuild_write", REBUILD_RECENT_LIST, "test_refresh")

\* if (next_idle_flags & REFRESH_FULL_SCREEN)
TestRefresh ==
  /\ loop_pc = "test_refresh"
  /\ IF Has(next_idle_flags, REFRESH_FULL_SCREEN)
       THEN /\ Goto("clear_refresh_read")
            /\ iter' = [iter EXCEPT !.observed = @ \cup {REFRESH_FULL_SCREEN}]
       ELSE /\ Goto(AfterIdleFlags)
            /\ UNCHANGED iter
  /\ UNCHANGED <<next_idle_flags, loop_reg, cb_pc, cb_reg, requested,
                 exited, screenVars, gfxVars, monVars, crashed, keyVars, docVars>>

\* next_idle_flags ^= REFRESH_FULL_SCREEN;
ClearRefreshRead == ClearRead("clear_refresh_read", "clear_refresh_write")
ClearRefreshWrite == ClearWrite("clear_refresh_write", REFRESH_FULL_SCREEN, "refresh")

\* const CurrentSpriteReader sprite(UIContext::instance());
\* update_screen_for_sprite(sprite): for the current sprite, or with the
\* default palette when there is none
RefreshPass ==
  /\ loop_pc = "refresh"
  /\ \E sprite \in {"sprite", "NULL"} :
       iter' = [iter EXCEPT !.steps = Append(@, "refresh"),
                            !.refreshed = Append(@, sprite)]
  /\ Goto(AfterIdleFlags)
  /\ UNCHANGED <<next_idle_flags, loop_reg, cb_pc, cb_reg, requested,
                 exited, screenVars, gfxVars, monVars, crashed, keyVars, docVars>>

\* rec_screen_poll();
RecScreenPoll ==
  /\ loop_pc = "rec_screen_poll"
  /\ Log("rec")
  /\ Goto("flip")
  /\ UNCHANGED <<next_idle_flags, loop_reg, cb_pc, cb_reg, requested,
                 exited, screenVars, gfxVars, monVars, crashed, keyVars, docVars>>

\* if (double_buffering) { jmouse_draw_cursor(); flip or blit }; gui_feedback
\* returns
FlipScreen ==
  /\ loop_pc = "flip"
  /\ IF double_buffering THEN Log("flip") ELSE UNCHANGED iter
  /\ Goto("check_for_dropped_files")
  /\ UNCHANGED <<next_idle_flags, loop_reg, cb_pc, cb_reg, requested,
                 exited, screenVars, gfxVars, monVars, crashed, keyVars, docVars>>

\* check_for_dropped_files(); break;
CheckDroppedFiles ==
  /\ loop_pc = "check_for_dropped_files"
  /\ Log("drop")
  /\ Goto("idle")
  /\ UNCHANGED <<next_idle_flags, loop_reg, cb_pc, cb_reg, requested,
                 exited, screenVars, gfxVars, monVars, crashed, keyVars, docVars>>

\* schedule_rebuild_recent_list(): next_idle_flags |= REBUILD_RECENT_LIST
schedule_rebuild_recent_list ==
  /\ AppCodeBetweenIterations
  /\ ~Has(next_idle_flags, REBUILD_RECENT_LIST)
  /\ next_idle_flags' = BitOr(next_idle_flags, REBUILD_RECENT_LIST)
  /\ UNCHANGED <<loop_pc, loop_reg, cb_pc, cb_reg, iter, requested,
                 exited, screenVars, gfxVars, monVars, crashed, keyVars, docVars>>

\* display_switch_in_callback, run by the display driver when the user
\* switches back to the program, at any moment with respect to the loop:
\* next_idle_flags |= REFRESH_FULL_SCREEN is a load, an or and a store.
DisplaySwitchInRead ==
  /\ ~crashed /\ ~exited
  /\ cb_pc = "none"
  /\ cb_pc' = "store"
  /\ cb_reg' = next_idle_flags
  /\ UNCHANGED <<next_idle_flags, loop_pc, loop_reg, iter, requested,
                 exited, screenVars, gfxVars, monVars, crashed, keyVars, docVars>>

DisplaySwitchInWrite ==
  /\ cb_pc = "store"
  /\ next_idle_flags' = BitOr(cb_reg, REFRESH_FULL_SCREEN)
  /\ cb_pc' = "none"
  /\ cb_reg' = 0
  /\ requested' = TRUE
  /\ UNCHANGED <<loop_pc, loop_reg, iter, exited, screenVars, gfxVars, monVars, crashed, keyVars, docVars>>

\* static volatile int next_idle_flags = 0;
InitIdle ==
  /\ next_idle_flags = 0
  /\ loop_pc = "idle"
  /\ loop_reg = 0
  /\ cb_pc = "none"
  /\ cb_reg = 0
  /\ iter = NoIteration
  /\ requested = FALSE

\* The event loop, the setters of the idle flags and the screen set-up.
NextIdle ==
  \/ QueueProcessing
  \/ TestRebuild
  \/ ReallocRecentList
  \/ ClearRebuildRead
  \/ ClearRebuildWrite
  \/ TestRefresh
  \/ ClearRefreshRead
  \/ ClearRefreshWrite
  \/ RefreshPass
  \/ RecScreenPoll
  \/ FlipScreen
  \/ CheckDroppedFiles
  \/ schedule_rebuild_recent_list
  \/ DisplaySwitchInRead
  \/ DisplaySwitchInWrite
  \/ \E scaling \in Scalings : set_screen_scaling(scaling)
  \/ gui_setup_screen

----------------------------------------------------------------------------
(***************************************************************************)
(* init_module_gui: the negotiation of the display mode.                   *)
(***************************************************************************)

Resolution(width, height, scale) == [width |-> width, height |-> height, scale |-> scale]

\* try_resolutions[], up to its { 0, 0, 0 } terminator
try_resolutions ==
  << Resolution(1024, 768, DEF_SCALE), Resolution(800, 600, DEF_SCALE),
     Resolution(640, 480, DEF_SCALE), Resolution(320, 240, 1), Resolution(320, 200, 1) >>

\* static int try_depths[] = { 32, 24, 16, 15, 8 }; the array has no 0 after 8
try_depths == <<32, 24, 16, 15, 8>>

\* What the configuration file (or -res) may hold: GfxMode.Width and Height
\* (0: not set), GfxMode.Depth (0: not set; 12 is no depth of try_depths).
ConfigResolutions == {Resolution(0, 0, 1), Resolution(640, 480, 1)}
ConfigDepths == {0, 8, 12, 15, 16, 24, 32}

\* get_desktop_resolution: no desktop (width 0), or its size;
\* desktop_color_depth: 0 when unknown
Desktops == {Resolution(0, 0, 1), Resolution(1280, 1024, 1), Resolution(800, 600, 1)}
DesktopDepths == {0, 16}

\* What an int read past the end of try_depths may hold.
BeyondTryDepths == {0, 12, 16}

\* load_gui_config(&w, &h, &bpp, &fullscreen), then the default resolution
\* and the default colour depth
load_gui_config ==
  /\ ~crashed /\ ~exited
  /\ gfx_pc = "start"
  /\ \E cfg \in ConfigResolutions, depth \in ConfigDepths, dsk \in Desktops,
        dsk_depth \in DesktopDepths :
       LET defaulted == cfg.width = 0 \/ cfg.height = 0
           has_desktop == dsk.width # 0
           fits == {k \in 1..Len(try_resolutions) :
                      /\ try_resolutions[k].width <= dsk.width - 16
                      /\ try_resolutions[k].height <= dsk.height - 32}
           k == FirstIndex(fits)
       IN  /\ min_possible_dsk_res' =
                IF defaulted /\ has_desktop /\ k # 0 THEN k ELSE 1
           /\ gfx_res' =
                IF ~defaulted THEN cfg
                ELSE IF ~has_desktop THEN Resolution(320, 200, 1)
                ELSE IF k # 0 THEN try_resolutions[k]
                ELSE cfg
           /\ screen_scaling' = gfx_res'.scale
           /\ bpp' = IF depth # 0 THEN depth
                     ELSE IF dsk_depth # 0 THEN dsk_depth
                     ELSE 8
  /\ bpp_first' = bpp'
  /\ gfx_pc' = "original"
  /\ UNCHANGED <<try_c, tried, rounds, double_buffering, ji_screen, ji_screen_created,
                 nbitmaps, destroyed, exited, idleVars, monVars, crashed, keyVars, docVars>>

\* set_color_depth(bpp); if (set_gfx_mode(autodetect, w, h, 0, 0) == 0) break;
\* The driver accepts the mode or not.
TryOriginal ==
  /\ gfx_pc = "original"
  /\ tried' = tried \cup {<<bpp, 0>>}
  /\ \E ok \in BOOLEAN :
       IF ok THEN gfx_pc' = "done" /\ UNCHANGED try_c
             ELSE gfx_pc' = "fallback" /\ try_c' = min_possible_dsk_res
  /\ UNCHANGED <<bpp, bpp_first, gfx_res, min_possible_dsk_res, rounds,
                 exited, idleVars, screenVars, monVars, crashed, keyVars, docVars>>

\* for (c=min_possible_dsk_res; try_resolutions[c].width; ++c)
\*   if (set_gfx_mode(autodetect, try_resolutions[c]...) == 0) {
\*     screen_scaling = try_resolutions[c].scale; goto gfx_done; }
TryFallback ==
  /\ gfx_pc = "fallback"
  /\ try_c <= Len(try_resolutions)
  /\ tried' = tried \cup {<<bpp, try_c>>}
  /\ \E ok \in BOOLEAN :
       IF ok THEN /\ gfx_pc' = "done"
                  /\ screen_scaling' = try_resolutions[try_c].scale
                  /\ UNCHANGED try_c
             ELSE /\ try_c' = try_c + 1
                  /\ UNCHANGED <<gfx_pc, screen_scaling>>
  /\ UNCHANGED <<bpp, bpp_first, gfx_res, min_possible_dsk_res, rounds,
                 double_buffering, ji_screen, ji_screen_created, nbitmaps, destroyed,
                 exited, idleVars, monVars, crashed, keyVars, docVars>>

\* if (bpp == 8) return -1;
\* else for (c=0; try_depths[c]; ++c)
\*        if (bpp == try_depths[c]) { bpp = try_depths[c+1]; break; }
\* When bpp is none of try_depths the loop runs past the end of the array
\* (it has no 0 terminator): it stops on a 0 it reads there and leaves bpp
\* as it is, or finds bpp there and takes the int that follows, or faults.
LowerDepthOutcomes ==
  IF bpp = 8
    THEN {[fail |-> TRUE, fault |-> FALSE, bpp |-> bpp]}
  ELSE IF bpp \in Range(try_depths)
    THEN {[fail |-> FALSE, fault |-> FALSE, bpp |-> try_depths[IndexOf(try_depths, bpp) + 1]]}
  ELSE {[fail |-> FALSE, fault |-> TRUE, bpp |-> bpp]}
         \cup {[fail |-> FALSE, fault |-> FALSE, bpp |-> b] :
                 b \in {bpp} \cup (BeyondTryDepths \ {0})}

LowerDepth ==
  /\ gfx_pc = "fallback"
  /\ try_c > Len(try_resolutions)
  /\ rounds < MaxRounds
  /\ \E o \in LowerDepthOutcomes :
       /\ bpp' = o.bpp
       /\ crashed' = o.fault
       /\ gfx_pc' = IF o.fail THEN "failed" ELSE IF o.fault THEN "fault" ELSE "original"
       /\ rounds' = IF o.fail \/ o.fault THEN rounds ELSE rounds + 1
  /\ UNCHANGED <<bpp_first, gfx_res, min_possible_dsk_res, try_c, tried,
                 exited, idleVars, screenVars, monVars, keyVars, docVars>>

\* The state in which init_module_gui starts setting the graphics mode.
InitGfx ==
  /\ gfx_pc = "start"
  /\ bpp = 0
  /\ bpp_first = 0
  /\ gfx_res = Resolution(0, 0, 1)
  /\ min_possible_dsk_res = 1
  /\ try_c = 1
  /\ tried = {}
  /\ rounds = 0

NextGfx ==
  \/ load_gui_config
  \/ TryOriginal
  \/ TryFallback
  \/ LowerDepth

----------------------------------------------------------------------------
\* init_module_gui: monitors = new MonitorList; monitor_timer is still -1
InitMonitors ==
  /\ monitors = <<>>
  /\ nmonitors = 0
  /\ lock = [m \in MonitorIds |-> FALSE]
  /\ deleted = [m \in MonitorIds |-> FALSE]
  /\ alloc = [m \in MonitorIds |-> FALSE]
  /\ stale_next = [m \in MonitorIds |-> End]
  /\ monitor_timer = NoTimer
  /\ timer_running = FALSE
  /\ timers_allocated = 0
  /\ ticks = <<>>
  /\ nticks = 0
  /\ free_calls = [m \in MonitorIds |-> 0]
  /\ self_removed = {}
  /\ crashed = FALSE

NextMonitors ==
  \/ add_gui_monitor
  \/ \E m \in MonitorIds : remove_gui_monitor(m)
  \/ TimerTick
  \/ TickVisit
  \/ TickVisitDangling
  \/ ProcReturn
  \/ TickEnd

\* ---------------------------------------------------------------------
\* NewLayerCommand::execute and the dialog it shows
\* ---------------------------------------------------------------------

\* How many layers the sprites of the model hold at most.
MaxLayers == 4

\* A layer name: n > 0 stands for the text "Layer n", OtherName for any text
\* that does not start with "Layer ".
OtherName == 0

LayerNames == 0..(MaxLayers + 1)

\* The widgets a window definition may hold, each known by its name.
WidgetNames == {"name", "ok", "cancel"}

\* What the data directories hold for newlay.jid: no file, a file without a
\* "new_layer" window, or a file whose "new_layer" window has some widgets.
LayoutFiles ==
  {[found |-> FALSE, window |-> FALSE, widgets |-> {}],
   [found |-> TRUE, window |-> FALSE, widgets |-> {}]}
    \cup {[found |-> TRUE, window |-> TRUE, widgets |-> ws] : ws \in SUBSET WidgetNames}

NoThrow == "none"

\* load_widget: throws when no directory holds the file, or when the file
\* has no widget of the name asked for.
load_widget(file) ==
  IF ~file.found
    THEN [thrown |-> "widget_file_not_found", widgets |-> {}]
    ELSE IF ~file.window
           THEN [thrown |-> "widget_not_found", widgets |-> {}]
           ELSE [thrown |-> NoThrow, widgets |-> file.widgets]

\* jwidget_find_name: the child of that name, NULL when there is none.
jwidget_find_name(window, name) == IF name \in window THEN name ELSE NULL

\* find_widget: jwidget_find_name, throwing on NULL.
find_widget(window, name) ==
  LET child == jwidget_find_name(window, name)
  IN  [thrown |-> IF child = NULL THEN "widget_not_found" ELSE NoThrow, child |-> child]

\* get_max_layer_num over the layers of the sprite.
get_max_layer_num(set) ==
  LET nums == {set[i] : i \in 1..Len(set)} \cup {0}
  IN  CHOOSE m \in nums : \A n \in nums : n <= m

get_unique_layer_name(set) == get_max_layer_num(set) + 1

\* The widgets that may have closed the window: one of its widgets, or none
\* (NULL) when the window is closed without one.
Killers(window) == window \cup {NULL}

NoNewLayer == [thrown |-> NoThrow, killer |-> NULL, text |-> OtherName, closed |-> FALSE]

\* if (jwindow_get_killer(window) == jwidget_find_name(window, "ok"))
ClosedByOk(killer, window) == killer = jwidget_find_name(window, "ok")

\* Undoable undoable(sprite, "New Layer"); undoable.new_layer(); commit();
\* layer_set_name(layer, name)
UndoableNewLayer(name) ==
  /\ layers' = Append(layers, name)
  /\ undo_log' = Append(undo_log, [label |-> "New Layer", layer |-> Len(layers) + 1])

\* NewLayerCommand::execute up to jwindow_open_fg: load the window, find the
\* name widget, put the unique layer name in it and show the dialog; a throw
\* of load_widget or find_widget ends the command here.
NewLayerExecute_Open(file) ==
  /\ ~crashed /\ ~exited /\ nl_pc = "idle"
  /\ Len(layers) < MaxLayers
  /\ LET w == load_widget(file)
         f == find_widget(w.widgets, "name")
         thrown == IF w.thrown # NoThrow THEN w.thrown ELSE f.thrown
     IN  IF thrown # NoThrow
           THEN /\ nl_last' = [NoNewLayer EXCEPT !.thrown = thrown]
                /\ UNCHANGED <<nl_pc, nl_window>>
           ELSE /\ nl_pc' = "open"
                /\ nl_window' = w.widgets
                /\ nl_last' = [NoNewLayer EXCEPT !.text = get_unique_layer_name(layers)]
  /\ UNCHANGED <<layers, undo_log, exited, idleVars, screenVars, gfxVars,
                 monVars, crashed, keyVars>>

\* NewLayerCommand::execute from the return of jwindow_open_fg: the dialog
\* was closed by killer with text in the name widget.
NewLayerExecute_Close(killer, text) ==
  /\ ~crashed /\ ~exited /\ nl_pc = "open"
  /\ killer \in Killers(nl_window)
  /\ text \in {nl_last.text, OtherName}
  /\ IF ClosedByOk(killer, nl_window)
       THEN UndoableNewLayer(text)
       ELSE UNCHANGED <<layers, undo_log>>
  /\ nl_pc' = "idle"
  /\ nl_last' = [thrown |-> NoThrow, killer |-> killer, text |-> text, closed |-> TRUE]
  /\ UNCHANGED <<nl_window, exited, idleVars, screenVars, gfxVars,
                 monVars, crashed, keyVars>>

InitDoc ==
  /\ layers = <<OtherName>>
  /\ undo_log = <<>>
  /\ nl_pc = "idle"
  /\ nl_window = {}
  /\ nl_last = NoNewLayer

NextNewLayer ==
  \/ \E file \in LayoutFiles : NewLayerExecute_Open(file)
  \/ \E killer \in WidgetNames \cup {NULL}, text \in LayerNames :
       NewLayerExecute_Close(killer, text)

\* exit_module_gui, called once the main loop has ended: delete every
\* Shortcut and the table, delete every Monitor still in the list (running
\* its teardown callback) and the list, and give ji_screen back to the real
\* screen.
exit_module_gui ==
  /\ ~crashed /\ ~exited /\ Depth = 0 /\ loop_pc = "idle"
  /\ exited' = TRUE
  /\ shortcuts' = <<>>
  /\ alloc' = [m \in MonitorIds |-> IF m \in Range(monitors) THEN FALSE ELSE alloc[m]]
  /\ free_calls' = [m \in MonitorIds |->
                      IF m \in Range(monitors) THEN free_calls[m] + 1 ELSE free_calls[m]]
  /\ monitors' = <<>>
  /\ IF double_buffering
       THEN /\ ji_screen' = screen
            /\ IF ji_screen_created
                 THEN destroy_bitmap(ji_screen)
                 ELSE UNCHANGED destroyed
            /\ ji_screen_created' = FALSE
       ELSE UNCHANGED <<ji_screen, ji_screen_created, destroyed>>
  /\ UNCHANGED <<nmonitors, lock, deleted, stale_next, monitor_timer, timer_running,
                 timers_allocated, ticks, nticks, self_removed, crashed,
                 last_add, current_tool, children, top_window, key,
                 idleVars, screen_scaling, double_buffering, nbitmaps, gfxVars, docVars>>

\* The monitor scheduler until the module is shut down.
NextShutdown ==
  \/ NextMonitors
  \/ exit_module_gui

\* The screen is reconfigured between iterations of the event loop, until
\* the module is shut down.
NextScreen ==
  \/ NextIdle
  \/ exit_module_gui

InitEnv == exited = FALSE

Init ==
  InitMonitors /\ InitKeys /\ InitEnv /\ InitIdle /\ InitScreen /\ InitGfx /\ InitDoc

SpecMonitors == Init /\ [][NextMonitors]_vars

SpecTable == Init /\ [][NextTable]_vars

SpecTools == Init /\ [][NextTools]_vars

SpecCommands == Init /\ [][NextCommands]_vars

SpecKeys == Init /\ [][NextKeys]_vars

SpecShutdown == Init /\ [][NextShutdown]_vars

SpecIdle == Init /\ [][NextIdle]_vars

SpecGfx == Init /\ [][NextGfx]_vars

SpecNewLayer == Init /\ [][NextNewLayer]_vars

SpecScreen == Init /\ [][NextScreen]_vars

----------------------------------------------------------------------------
(***************************************************************************)
(* Properties of the monitor scheduler.                                    *)
(***************************************************************************)

\* The step enters the poll callback of monitor m.
PollEntered(m) ==
  /\ Depth > 0 /\ Depth' = Depth
  /\ Top.phase = "visit"
  /\ ticks'[Depth].phase = "proc"
  /\ ticks'[Depth].it = m

\* remove_gui_monitor has been called for m: it was built and is out of the list.
RemoveRequested(m) == m <= nmonitors /\ m \notin Range(monitors)

\* C1: a monitor's poll callback is never entered while that monitor is
\* already Running, and never after remove_gui_monitor was called for it.
C1_PollNotReentrantNotAfterRemove ==
  [][\A m \in MonitorIds :
       PollEntered(m) => ~Running(m) /\ ~RemoveRequested(m)]_vars

\* C2: a monitor that removed itself from inside its own poll callback has
\* its teardown callback run exactly once, only after that callback has
\* returned, and is never inside its poll callback again afterwards.
C2_SelfRemovedTornDownOnce ==
  \A m \in self_removed :
    /\ Running(m) => free_calls[m] = 0
    /\ ~Running(m) => free_calls[m] = 1

\* C9: the recurring monitor timer is running exactly when at least one
\* monitor is registered in the list.
C9_TimerRunsIffMonitors ==
  timer_running <=> (monitors # <<>>)

\* C9 witness: two monitors were registered and both removed, one of them by
\* itself inside its poll callback during a tick; the timer is stopped.
C9_Witness ==
  /\ monitors = <<>>
  /\ nmonitors >= 2
  /\ self_removed # {}
  /\ nticks > 0
  /\ ~timer_running

\* C10: the monitor timer is allocated at most once, by the first
\* add_gui_monitor; its id never changes afterwards (it stays the first id
\* handed out) whether the timer is stopped or running, and whenever monitors
\* are registered it is that timer which runs.
C10_TimerAllocatedOnce ==
  /\ timers_allocated <= 1
  /\ (monitor_timer = NoTimer) <=> (nmonitors = 0)
  /\ monitor_timer # NoTimer => monitor_timer = 1 /\ timers_allocated = 1
  /\ monitors # <<>> => timer_running /\ monitor_timer = 1

\* C10 witness: monitor 1 was removed while it was the only one in the list
\* (the timer was stopped), then monitor 2 was added and the timer restarted.
C10_Witness ==
  /\ monitors = <<2>>
  /\ nmonitors = 2
  /\ ~alloc[1] /\ stale_next[1] = End
  /\ timer_running
  /\ monitor_timer = 1

\* C14: the iteration of a tick never stands on a monitor that has been
\* removed from the list, whichever monitors the poll callbacks removed (the
\* callback's own, the one that follows it, or any other).
C14_IterationNeverVisitsRemoved ==
  (~crashed /\ Depth > 0 /\ Top.phase = "visit")
    => (Top.it = End \/ Top.it \in Range(monitors))

\* The step is a remove_gui_monitor(m): m leaves the list and the module
\* is not being shut down.
RemoveStep(m) == m \in Range(monitors) /\ m \notin Range(monitors') /\ ~exited'

\* The step is the return of the poll callback of m to the handler.
ReturnStep(m) ==
  /\ Depth > 0 /\ Depth' = Depth
  /\ Top.phase = "proc" /\ Top.it = m
  /\ ticks'[Depth].phase = "visit"

\* The teardown callback of m runs in the step, and the Monitor is released.
TornDownInStep(m) == free_calls'[m] = free_calls[m] + 1 /\ ~alloc'[m]

\* C15: remove_gui_monitor on a monitor that is not Running runs its
\* teardown callback before returning; on a Running monitor it only marks
\* it deleted (PendingDelete) and the teardown runs in the step in which its
\* poll callback returns; either way the monitor has left the list when
\* remove_gui_monitor returns, so a removed monitor that is not yet torn
\* down is Running and marked.
C15_RemoveSyncOrDeferred ==
  [][\A m \in MonitorIds :
       /\ RemoveStep(m) =>
            IF Running(m)
              THEN /\ free_calls' = free_calls
                   /\ alloc'[m] /\ deleted'[m]
                   /\ Running(m)'
              ELSE TornDownInStep(m)
       /\ (ReturnStep(m) /\ alloc[m] /\ deleted[m]) => TornDownInStep(m)
       /\ (ReturnStep(m) /\ alloc[m] /\ ~deleted[m]) => free_calls' = free_calls
       /\ (m <= nmonitors /\ m \notin Range(monitors) /\ alloc[m])
            => (Running(m) /\ deleted[m])]_vars

\* C15 witness: a monitor was removed while it was not Running and torn
\* down at once, and a monitor that removed itself
\* inside its poll callback was torn down after the callback returned.
C15_Witness ==
  /\ ~crashed
  /\ Depth = 0
  /\ \E m \in self_removed : free_calls[m] = 1 /\ ~alloc[m] /\ deleted[m]
  /\ \E m \in MonitorIds \ self_removed :
       m <= nmonitors /\ m \notin Range(monitors) /\ free_calls[m] = 1 /\ ~deleted[m]

\* C16: once exit_module_gui has run, the teardown callback of every monitor
\* that was ever registered has been invoked exactly once.
C16_TeardownExactlyOnce ==
  exited => \A m \in 1..nmonitors : free_calls[m] = 1

----------------------------------------------------------------------------
(***************************************************************************)
(* Properties of the event loop and the idle flags.                        *)
(***************************************************************************)

\* gui_feedback is past its idle-flag block in the current iteration.
PastIdleFlags == loop_pc \in {"rec_screen_poll", "flip", "check_for_dropped_files"}

\* C11: a REFRESH_FULL_SCREEN request raised at any point is seen by the
\* next test of the flag in gui_feedback, which then makes one refresh pass
\* (for the current sprite or with the default palette) and leaves the flag
\* clear; an iteration makes at most one refresh pass, and none when its test
\* did not find the flag set.
C11_RefreshRequestServedOnce ==
  /\ (loop_pc = "test_refresh" /\ requested) => Has(next_idle_flags, REFRESH_FULL_SCREEN)
  /\ Len(iter.refreshed) <= 1
  /\ Len(iter.refreshed) = 1 => REFRESH_FULL_SCREEN \in iter.observed
  /\ (PastIdleFlags /\ REFRESH_FULL_SCREEN \in iter.observed)
       => /\ Len(iter.refreshed) = 1
          /\ ~requested => ~Has(next_idle_flags, REFRESH_FULL_SCREEN)

\* The steps are in the given order: each one made comes later in `order'
\* than every step made before it.
InOrder(steps, order) ==
  \A i, j \in 1..Len(steps) :
    i < j => IndexOf(order, steps[i]) < IndexOf(order, steps[j])

\* The iteration has made the steps it must: the recording poll before
\* gui_feedback returns, the flip exactly when double buffering is on, a
\* rebuild or a refresh exactly when the flag was found set.
StepsComplete ==
  /\ PastIdleFlags =>
       /\ ("rebuild" \in Range(iter.steps)) <=> (REBUILD_RECENT_LIST \in iter.observed)
       /\ ("refresh" \in Range(iter.steps)) <=> (REFRESH_FULL_SCREEN \in iter.observed)
  /\ loop_pc = "check_for_dropped_files" =>
       /\ "rec" \in Range(iter.steps)
       /\ ("flip" \in Range(iter.steps)) <=> double_buffering
       /\ "drop" \notin Range(iter.steps)
  /\ (loop_pc = "idle" /\ iter # NoIteration) =>
       /\ "rec" \in Range(iter.steps)
       /\ iter.steps[Len(iter.steps)] = "drop"

\* C12 as stated: every iteration makes its steps in the order idle flags
\* (rebuild, refresh), dropped-file intake, recording poll, flip/blit.
C12_DroppedFilesBeforeRecording ==
  /\ InOrder(iter.steps, <<"rebuild", "refresh", "drop", "rec", "flip">>)
  /\ StepsComplete

\* C12 amended: every iteration makes its steps in the order idle flags
\* (rebuild, refresh), recording poll, cursor composite and flip/blit (when
\* double buffering is on), and the dropped-file intake last.
C12_DroppedFilesLast ==
  /\ InOrder(iter.steps, <<"rebuild", "refresh", "rec", "flip", "drop">>)
  /\ StepsComplete

\* C12 witness: an iteration that made all five steps has ended.
C12_Witness ==
  /\ loop_pc = "idle"
  /\ iter.steps = <<"rebuild", "refresh", "rec", "flip", "drop">>

ClearStoreStep == loop_pc \in {"clear_rebuild_write", "clear_refresh_write"} /\ loop_pc' # loop_pc

----------------------------------------------------------------------------
(***************************************************************************)
(* Properties of the shortcut table.                                       *)
(***************************************************************************)

\* Two Shortcuts are bindings of the same target: the same (command name,
\* parameters) pair, or the same tool.
SameTarget(a, b) ==
  /\ a.type = b.type
  /\ IF a.type = Shortcut_ExecuteCommand
       THEN a.name = b.name /\ ParamsEqual(a.params, b.params)
       ELSE a.tool = b.tool

\* C3: the table holds at most one ExecuteCommand binding per (command_id,
\* parameters) pair and at most one ChangeTool binding per tool, for any
\* command names and parameters; binding a chord to a pair or tool that is
\* already bound leaves the table size unchanged.
C3_OneBindingPerTarget ==
  /\ \A i, j \in 1..Len(shortcuts) :
       i < j => ~SameTarget(shortcuts[i], shortcuts[j])
  /\ (last_add.type # "none" /\ last_add.bound_before)
       => Len(shortcuts) = last_add.size_before

\* C4: after add_keyboard_shortcut_to_execute_command(chord, command_id,
\* parameters), the lookup for the same pair returns a binding, it is the one
\* the chord was appended to, and its accelerator (also as returned by
\* get_accel_to_execute_command) holds that chord and every earlier one.
C4_AddThenLookupFindsChord ==
  last_add.type = Shortcut_ExecuteCommand =>
    LET i == get_keyboard_shortcut_for_command(last_add.name, last_add.params)
    IN  /\ i # 0
        /\ i = last_add.index
        /\ get_accel_to_execute_command(last_add.name, last_add.params)
             = shortcuts[last_add.index].accel
        /\ ParseChord(last_add.shortcut_string) \subseteq shortcuts[last_add.index].accel
        /\ last_add.accel_before \subseteq shortcuts[last_add.index].accel

----------------------------------------------------------------------------
(***************************************************************************)
(* Properties of the JM_KEYPRESSED handler.                                *)
(***************************************************************************)

\* The step is the handling of one JM_KEYPRESSED message (key'.msg).
KeyStep == key'.n # key.n

\* The first matching Shortcut of message msg is of the given type.
FirstMatchIs(msg, type) ==
  FirstMatch(msg) # 0 /\ shortcuts[FirstMatch(msg)].type = type

\* A foreground window is open among the manager's children.
ForegroundOpen == \E i \in 1..Len(children) : children[i].foreground

\* The desktop window is the application's top window.
DesktopIsTop == \E i \in 1..Len(children) : children[i].desktop /\ i = top_window

\* C5: on a key press whose first matching binding is an ExecuteCommand
\* binding (of a registered command), the command is executed if and only if
\* it is screen_shot, or the desktop is the top window and no foreground
\* window is open, whatever the order of the manager's children.
C5_FocusGatedDispatch ==
  [][(KeyStep /\ FirstMatchIs(key'.msg, Shortcut_ExecuteCommand)
        /\ shortcuts[FirstMatch(key'.msg)].command # NULL)
     => LET sh == shortcuts[FirstMatch(key'.msg)]
        IN  (key'.outcome.executed.command = sh.command)
              <=> (sh.name = screen_shot \/ (DesktopIsTop /\ ~ForegroundOpen))]_vars

\* The tools whose own binding matches the message, in tool-registration order.
MatchingGroup(msg) ==
  LET Test(tool) ==
        \E i \in 1..Len(shortcuts) :
          /\ shortcuts[i].type = Shortcut_ChangeTool
          /\ shortcuts[i].tool = tool
          /\ jaccel_check(shortcuts[i].accel, msg)
  IN  SelectSeq(tools_list, Test)

\* The active tool is in the group at position i, which is not the last.
ActiveBeforeLast(group, i) ==
  i \in 1..(Len(group) - 1) /\ group[i] = current_tool

\* C6: when a key press (first matching a ChangeTool binding) matches the
\* bindings of two or more tools and the active tool is in that group at a
\* position that is not the last, the next member of the group is selected.
C6_CycleAdvances ==
  [][(KeyStep /\ FirstMatchIs(key'.msg, Shortcut_ChangeTool))
     => LET group == MatchingGroup(key'.msg)
        IN  \A i \in 1..Len(group) :
              (Len(group) >= 2 /\ ActiveBeforeLast(group, i))
                => /\ key'.outcome.selected = group[i + 1]
                   /\ current_tool' = group[i + 1]]_vars

\* C7: when two or more tools match and no group member follows the active
\* tool, group[0], the first matching tool in tool-registration order, is
\* selected, for every order of binding registration (taken where every tool
\* of tools_list has a binding, so that the group is built without a fault).
C7_FallbackSelectsGroupStart ==
  [][(KeyStep /\ FirstMatchIs(key'.msg, Shortcut_ChangeTool) /\ ~SomeToolUnbound)
     => LET group == MatchingGroup(key'.msg)
        IN  (Len(group) >= 2 /\ ~\E i \in 1..Len(group) : ActiveBeforeLast(group, i))
              => /\ key'.outcome.selected = group[1]
                 /\ current_tool' = group[1]]_vars

\* The scenario of C8: tools A and B are bound to chord N alone, A's binding
\* registered before B's, and the remaining tool C is bound to another chord.
KeyN == KeyCombo(NoShifts, "N")
ScenarioAB ==
  LET a == get_keyboard_shortcut_for_tool("A")
      b == get_keyboard_shortcut_for_tool("B")
      c == get_keyboard_shortcut_for_tool("C")
  IN  /\ a # 0 /\ b # 0 /\ c # 0
      /\ a < b
      /\ shortcuts[a].accel = {KeyN}
      /\ shortcuts[b].accel = {KeyN}
      /\ KeyN \notin shortcuts[c].accel

\* The step is a press of N in the scenario with A active (the first press),
\* or the press of N that follows it with B active (the second press).
FirstPress == ScenarioAB /\ KeyStep /\ key'.msg = KeyN /\ current_tool = "A"
SecondPress ==
  /\ ScenarioAB /\ KeyStep /\ key'.msg = KeyN /\ current_tool = "B"
  /\ key.msg = KeyN /\ key.tool_before = "A"

C17_MissingCommandIsNoMatch ==
  [][(KeyStep /\ FirstMatchIs(key'.msg, Shortcut_ExecuteCommand)
        /\ shortcuts[FirstMatch(key'.msg)].command = NULL)
     => /\ ~key'.outcome.fault
        /\ ~crashed'
        /\ key'.outcome.executed = NoExec
        /\ key'.outcome.selected = NULL
        /\ ~key'.outcome.consumed]_vars

\* The Shortcut at index i is the earliest-registered one whose accelerator
\* matches the message.
EarliestMatching(msg, i) ==
  /\ i \in 1..Len(shortcuts)
  /\ jaccel_check(shortcuts[i].accel, msg)
  /\ \A j \in 1..(i - 1) : ~jaccel_check(shortcuts[j].accel, msg)

PressFrom(msg, active) ==
  SelectThisToolFrom(active, shortcuts[FirstMatch(msg)].tool, ToolGroup(msg, FALSE))

\* The tools selected by n successive presses of msg, starting with `active'.
RECURSIVE SelectedByPresses(_, _, _)
SelectedByPresses(msg, active, n) ==
  IF n = 0 THEN {}
  ELSE LET t == PressFrom(msg, active)
       IN  {t} \cup SelectedByPresses(msg, t, n - 1)

\* C20: for every chord that first matches a tool binding, from any active
\* tool and for any order of the bindings, pressing the chord repeatedly
\* selects every tool whose binding matches it (taken where every tool of
\* tools_list has a binding, so that the group is built without a fault).
C20_CycleCoversGroup ==
  \A msg \in Messages :
    (FirstMatchIs(msg, Shortcut_ChangeTool) /\ ~SomeToolUnbound) =>
      \A active \in Tools :
        Range(MatchingGroup(msg)) \subseteq SelectedByPresses(msg, active, 2 * Len(tools_list))

----------------------------------------------------------------------------
(***************************************************************************)
(* Properties of the display-mode negotiation.                             *)
(***************************************************************************)

\* Every set_gfx_mode call of one pass of the for (;;) loop was made at the
\* depth: the mode asked for and each fallback resolution from
\* min_possible_dsk_res on.
TriedAllAt(depth) ==
  /\ <<depth, 0>> \in tried
  /\ \A k \in min_possible_dsk_res..Len(try_resolutions) : <<depth, k>> \in tried

\* C19: the negotiation ends for every configured width, height and colour
\* depth: the loop is restarted at most once per depth of try_depths below
\* the first, it never faults, and it fails only at depth 8, after the mode
\* asked for and the fallback resolutions were tried at the first depth and
\* at every lower depth of try_depths down to 8.
C19_NegotiationTerminates ==
  /\ rounds <= Len(try_depths) - 1
  /\ gfx_pc # "fault"
  /\ gfx_pc = "failed" =>
       /\ bpp = 8
       /\ TriedAllAt(bpp_first)
       /\ \A d \in Range(try_depths) : d <= bpp_first => TriedAllAt(d)

----------------------------------------------------------------------------
(***************************************************************************)
(* Further properties of the JM_KEYPRESSED handler and the table.          *)
(***************************************************************************)

\* C21: when a key press first matches a tool binding, the group built is
\* exactly the tools of tools_list whose own binding matches the message, in
\* tool order; a tool that has no binding is left out, the handler does not
\* fault and a tool is selected.
C21_GroupWellDefined ==
  [][(KeyStep /\ FirstMatchIs(key'.msg, Shortcut_ChangeTool))
     => /\ ~key'.outcome.fault
        /\ ~crashed'
        /\ key'.outcome.group = MatchingGroup(key'.msg)
        /\ key'.outcome.selected \in Tools
        /\ current_tool' = key'.outcome.selected]_vars

\* The Shortcuts of the table bound to command c with an empty parameter set.
EmptyParamsBindings(c) ==
  {i \in 1..Len(shortcuts) :
     /\ shortcuts[i].type = Shortcut_ExecuteCommand
     /\ shortcuts[i].command = c
     /\ ParamsEmpty(shortcuts[i].params)}

\* C22: for a command of the registry, absent parameters (NULL) and an empty
\* parameter set name the same single binding: the table holds at most one
\* binding of the command with empty parameters, both lookups return it,
\* an add with either form goes to it whichever form created it, and the
\* absent-parameter lookup never returns a binding with parameters.
C22_AbsentParamsAreEmptyParams ==
  \A c \in RegisteredCommands :
    LET absent == get_keyboard_shortcut_for_command(c, NullParams)
        empty == get_keyboard_shortcut_for_command(c, ParamsOf({}))
    IN  /\ absent = empty
        /\ Cardinality(EmptyParamsBindings(c)) <= 1
        /\ EmptyParamsBindings(c) # {} => absent \in EmptyParamsBindings(c)
        /\ EmptyParamsBindings(c) = {} => absent = 0
        /\ (last_add.type = Shortcut_ExecuteCommand /\ last_add.name = c
              /\ ParamsEmpty(last_add.params))
             => /\ absent = last_add.index
                /\ ParseChord(last_add.shortcut_string) \subseteq shortcuts[absent].accel

\* C22 witness: new_layer, already bound through one chord, was bound to a
\* second chord with absent parameters: the add went to the existing binding,
\* which is also the one the empty-parameter-set lookup returns, beside an
\* earlier binding of new_layer with parameters.
C22_Witness ==
  /\ last_add.type = Shortcut_ExecuteCommand
  /\ last_add.name = "new_layer"
  /\ last_add.params = NullParams
  /\ last_add.bound_before
  /\ last_add.accel_before # {}
  /\ last_add.accel_before # shortcuts[last_add.index].accel
  /\ get_keyboard_shortcut_for_command("new_layer", ParamsOf({})) = last_add.index
  /\ Cardinality(EmptyParamsBindings("new_layer")) = 1
  /\ \E i \in 1..Len(shortcuts) :
       /\ shortcuts[i].command = "new_layer"
       /\ ~ParamsEmpty(shortcuts[i].params)
       /\ i < last_add.index

\* ---------------------------------------------------------------------
\* Properties of NewLayerCommand::execute
\* ---------------------------------------------------------------------

\* A step in which the sprite's layers or its undo log change.
SpriteChanges == layers' # layers \/ undo_log' # undo_log

\* A step in which the dialog of NewLayerCommand::execute is closed.
DialogCloses == nl_pc = "open" /\ nl_pc' = "idle"

\* C23: NewLayerCommand::execute changes the sprite (one layer added, one
\* committed "New Layer" step in the undo log) only in a step that closes
\* its dialog through the ok widget, and does so in every such step; a throw
\* of load_widget or find_widget, and a dialog closed in any other way, leave
\* layers and undo log as they were.
C23_LayerAddedOnlyOnOk ==
  [][/\ SpriteChanges
        => /\ DialogCloses
           /\ nl_last'.killer = "ok"
           /\ "ok" \in nl_window
           /\ layers' = Append(layers, nl_last'.text)
           /\ undo_log' = Append(undo_log, [label |-> "New Layer", layer |-> Len(layers')])
     /\ (DialogCloses /\ nl_last'.killer = "ok") => SpriteChanges
     /\ nl_last'.thrown # NoThrow => ~SpriteChanges]_vars

\* ---------------------------------------------------------------------
\* The value returned by the JM_KEYPRESSED handler
\* ---------------------------------------------------------------------

\* C24: a key press is consumed (the handler returns true) exactly when the
\* handler passed a command to execute_command: a press with no matching
\* Shortcut, a press that selected a tool and a press whose command the
\* focus gating held back are not consumed, and a press with no matching
\* Shortcut leaves the active tool, the table and the sprite as they were.
C24_ConsumedIffCommandExecuted ==
  [][KeyStep
       => LET o == key'.outcome
          IN  /\ o.consumed <=> (o.executed # NoExec)
              /\ FirstMatch(key'.msg) = 0
                   => /\ ~o.consumed
                      /\ current_tool' = current_tool
                      /\ UNCHANGED <<shortcuts, layers, undo_log>>
              /\ o.selected # NULL => ~o.consumed
              /\ (FirstMatchIs(key'.msg, Shortcut_ExecuteCommand)
                    /\ shortcuts[FirstMatch(key'.msg)].command # screen_shot
                    /\ ~MainWindowAccepts)
                   => ~o.consumed /\ o.executed = NoExec
              /\ o.executed # NoExec
                   => /\ FirstMatchIs(key'.msg, Shortcut_ExecuteCommand)
                      /\ o.executed.command = shortcuts[FirstMatch(key'.msg)].command]_vars

\* C24 witness: with a tool binding and both commands in the table, the last
\* press matched new_layer first, which the focus gating held back: nothing
\* was executed and the event was not consumed.
C24_Witness ==
  /\ key.msg # NoKey.msg
  /\ ~key.outcome.fault
  /\ key.outcome.first # 0
  /\ shortcuts[key.outcome.first].type = Shortcut_ExecuteCommand
  /\ shortcuts[key.outcome.first].command = "new_layer"
  /\ key.outcome.executed = NoExec
  /\ ~key.outcome.consumed
  /\ \E i \in 1..Len(shortcuts) : shortcuts[i].type = Shortcut_ChangeTool
  /\ \E i \in 1..Len(shortcuts) : shortcuts[i].command = screen_shot

\* ---------------------------------------------------------------------
\* display_switch_in_callback against the flag updates of gui_feedback
\* ---------------------------------------------------------------------

\* C25: a REFRESH_FULL_SCREEN request raised by display_switch_in_callback
\* is never lost, however its update interleaves with the load and the store
\* of the ^= statements of gui_feedback: from the callback's store until the
\* loop clears the flag for its refresh pass, the flag stays set, so the
\* next test of the flag finds it and a refresh pass follows.
C25_RefreshRequestNeverLost ==
  requested => Has(next_idle_flags, REFRESH_FULL_SCREEN)

\* ---------------------------------------------------------------------
\* The off-screen buffers of gui_setup_screen
\* ---------------------------------------------------------------------

\* The off-screen buffers gui_setup_screen has created so far.
CreatedBuffers == 1..nbitmaps

\* C26: over any sequence of set_screen_scaling and gui_setup_screen calls
\* followed by exit_module_gui, the real screen is never destroyed, no
\* off-screen buffer is destroyed twice, every off-screen buffer that is no
\* longer ji_screen has been destroyed (all of them once the module has
\* exited), and ji_screen_created is true exactly while ji_screen is a
\* buffer this module created and has not destroyed.
C26_BuffersDestroyedExactlyOnce ==
  /\ destroyed[screen] = 0
  /\ \A b \in CreatedBuffers : destroyed[b] <= 1
  /\ \A b \in CreatedBuffers : b # ji_screen => destroyed[b] = 1
  /\ exited => \A b \in CreatedBuffers : destroyed[b] = 1
  /\ ji_screen_created <=> (ji_screen \in CreatedBuffers /\ destroyed[ji_screen] = 0)

====
